---- MODULE Spec2Model ----
(***************************************************************************)
(* LandNOA agents: the service registry (registry.ts), the host agent      *)
(* (discovery cache, heuristic router, health-gated dispatch) and the      *)
(* specialist's anchoring step (POST /execute).                            *)
(*                                                                         *)
(* The specifications share the variables:                                 *)
(*   SpecRegistry    the registry's handlers, one store command per step   *)
(*   SpecOutage      the registry with a store that can be lost            *)
(*   SpecRace        the registry with requests that overlap freely        *)
(*   SpecBoth        a store-backed and a fallback registry side by side   *)
(*   SpecHost        the host's /query handlers against the registry       *)
(*   SpecTimeouts    SpecHost with the calls that carry a timeout fair     *)
(*   SpecBoot        the host from its start, with fairness and the clock  *)
(*   SpecDrop        SpecHost with a record of the host's deregister calls *)
(*   SpecStoreError  SpecHost with a store that can be lost                *)
(*   SpecSpecialist  the specialist's /execute handler                     *)
(***************************************************************************)
EXTENDS Integers, Sequences, FiniteSets, TLC

VARIABLES
  redisClient,      \* registry.ts:11  TRUE: the client object exists, FALSE: null (fallback)
  redis,            \* the shared store: key -> [val, exp], or NoKey
  inMemoryAgents,   \* registry.ts:23  ordered object: sequence of <<agentId, record>>
  now,              \* the clock, in seconds
  rh,               \* registry handlers in flight: slot -> handler record
  started,          \* number of registry requests accepted so far
  overlaps,         \* number of them accepted while another was in flight
  resp,             \* the response the registry sent last
  reachable,        \* TRUE while the shared store answers the registry's commands
  lastReg,          \* history: agent -> the latest register call of the agent
  discoveredTools,        \* part_003:18
  discoveredAgentsData,   \* part_003:19  ordered object: sequence of <<agentId, info>>
  SPECIALIST_AGENTS_SECRETS, \* part_003:8  configuration: sequence of <<agentId, token>>
  boot,             \* the host's bootstrap loop: "fetch", "sleep", "listening"
  qh,               \* host /query handlers: slot -> handler record
  served,           \* number of host queries accepted so far
  crossed,          \* number of them accepted while another was in flight
  lastFetch,        \* how the fetchToolsFromRegistry of the latest step ended, or "none"
  hresp,            \* the response the host sent in the latest step, with what its
                    \* handler did, or <<>>
  ex,               \* the specialist's /execute handler
  dropped           \* history: agent -> what followed the host's deregister call for it

registryVars == <<redisClient, redis, inMemoryAgents, now, rh, started, overlaps, resp, lastReg>>
hostVars == <<discoveredTools, discoveredAgentsData, SPECIALIST_AGENTS_SECRETS, boot, qh, served,
              crossed>>
vars == <<redisClient, redis, inMemoryAgents, now, rh, started, overlaps, resp, lastReg,
          discoveredTools, discoveredAgentsData, SPECIALIST_AGENTS_SECRETS,
          boot, qh, served, crossed, lastFetch, hresp, ex, reachable, dropped>>

(***************************************************************************)
(* Bounds of the model.                                                    *)
(***************************************************************************)
MaxTime == 2          \* the clock stops here
MaxRequests == 3      \* registry requests accepted in one behaviour
MaxOverlaps == 0      \* of which this many while another request is in flight
MaxQueries == 2       \* host queries accepted in one behaviour
MaxCrossed == 1       \* of which this many while another query is in flight
MaxRegistered == 2    \* register calls the specialists make while the host runs
HEARTBEAT_TTL == 1    \* registry.ts:9, read from the environment (60 by default)

(***************************************************************************)
(* Text: strings with the JavaScript operations the code applies to them.  *)
(***************************************************************************)
UpperLetters ==
  {"A", "B", "C", "D", "E", "F", "G", "H", "I", "J", "K", "L", "M",
   "N", "O", "P", "Q", "R", "S", "T", "U", "V", "W", "X", "Y", "Z", "É"}

LowerChar(c) ==
  IF c \notin UpperLetters THEN c
  ELSE CASE c = "A" -> "a"
    [] c = "B" -> "b"
    [] c = "C" -> "c"
    [] c = "D" -> "d"
    [] c = "E" -> "e"
    [] c = "F" -> "f"
    [] c = "G" -> "g"
    [] c = "H" -> "h"
    [] c = "I" -> "i"
    [] c = "J" -> "j"
    [] c = "K" -> "k"
    [] c = "L" -> "l"
    [] c = "M" -> "m"
    [] c = "N" -> "n"
    [] c = "O" -> "o"
    [] c = "P" -> "p"
    [] c = "Q" -> "q"
    [] c = "R" -> "r"
    [] c = "S" -> "s"
    [] c = "T" -> "t"
    [] c = "U" -> "u"
    [] c = "V" -> "v"
    [] c = "W" -> "w"
    [] c = "X" -> "x"
    [] c = "Y" -> "y"
    [] c = "Z" -> "z"
    [] c = "É" -> "é"

\* the characters of s from the i-th on, lower-cased
RECURSIVE lowerFrom(_, _)
lowerFrom(s, i) ==
  IF i > Len(s) THEN "" ELSE LowerChar(SubSeq(s, i, i)) \o lowerFrom(s, i + 1)

toLowerCase(s) == lowerFrom(s, 1)

includes(s, k) ==
  \E x \in {s} : \E i \in 1..(Len(x) + 1 - Len(k)) : SubSeq(x, i, i + Len(k) - 1) = k

RECURSIVE trimStart(_)
trimStart(s) ==
  IF Len(s) > 0 /\ SubSeq(s, 1, 1) = " " THEN trimStart(SubSeq(s, 2, Len(s))) ELSE s

RECURSIVE trimEnd(_)
trimEnd(s) ==
  IF Len(s) > 0 /\ SubSeq(s, Len(s), Len(s)) = " "
  THEN trimEnd(SubSeq(s, 1, Len(s) - 1)) ELSE s

trim(s) == trimEnd(trimStart(s))

(***************************************************************************)
(* JavaScript objects with string keys keep insertion order: an object is  *)
(* a sequence of <<key, value>> pairs with distinct keys.                  *)
(***************************************************************************)
ObjHas(o, k) == \E i \in 1..Len(o) : o[i][1] = k
ObjGet(o, k) == o[CHOOSE i \in 1..Len(o) : o[i][1] = k][2]
ObjSet(o, k, v) ==
  IF ObjHas(o, k)
  THEN [i \in 1..Len(o) |-> IF o[i][1] = k THEN <<k, v>> ELSE o[i]]
  ELSE Append(o, <<k, v>>)
ObjDelete(o, k) == SelectSeq(o, LAMBDA e : e[1] # k)
ObjKeys(o) == {o[i][1] : i \in 1..Len(o)}

(***************************************************************************)
(* The requests the registry receives.  A tool is {name, description}; a   *)
(* missing tools field is <<"undefined">>, an array is <<"array", tools>>. *)
(***************************************************************************)
BioTool == [name |-> "Biologo Virtual", description |-> "Fauna e flora"]
BioTool2 == [name |-> "Consulta", description |-> "Perguntas de Biologia"]
GuiaTool == [name |-> "Guia de IA", description |-> "Boas praticas"]
MapaTool == [name |-> "Mapas", description |-> "Rotas e enderecos"]

RegisterBodies ==
  { [agent_id |-> "bio", base_url |-> "http://bio:8020", tools |-> <<"array", <<BioTool>>>>, secret_token |-> "sb"],
    [agent_id |-> " bio ", base_url |-> "http://bio:8021", tools |-> <<"array", <<MapaTool, BioTool2>>>>, secret_token |-> "sb2"],
    [agent_id |-> "guia", base_url |-> "http://guia:8010", tools |-> <<"array", <<GuiaTool>>>>, secret_token |-> "sg"],
    [agent_id |-> "guia", base_url |-> "http://guia:8010", tools |-> <<"undefined">>, secret_token |-> "sg"] }

DeregisterBodies == { [agent_id |-> "bio "], [agent_id |-> "guia"], [agent_id |-> " "] }

AgentIds == {trim(b.agent_id) : b \in RegisterBodies} \ {""}

isArray(t) == t[1] = "array"

\* registry.ts:37
RegisterBodyOk(b) ==
  /\ trim(b.agent_id) # ""
  /\ trim(b.base_url) # ""
  /\ trim(b.secret_token) # ""
  /\ isArray(b.tools)

\* registry.ts:39  the object that is serialised: { base_url, tools }
PublicObject(b) == [base_url |-> trim(b.base_url), tools |-> b.tools[2]]

\* JSON text is kept as a tagged value: stringify tags, parse untags.
JSONstringify(v) == <<"json", v>>
JSONparse(t) == t[2]

(***************************************************************************)
(* The shared store (Redis): the commands the registry sends.              *)
(***************************************************************************)
AGENT_DATA_PREFIX == "agent:"
AGENT_SECRET_PREFIX == "secret:"
dataKey(agentId) == AGENT_DATA_PREFIX \o agentId
secretKey(agentId) == AGENT_SECRET_PREFIX \o agentId

RedisKeys == {dataKey(a) : a \in AgentIds} \cup {secretKey(a) : a \in AgentIds}
NoExpiry == 0 - 1
NoKey == [present |-> FALSE, val |-> <<>>, exp |-> NoExpiry]

\* SET key value: stores the value and discards any time-to-live of the key
RedisSet(db, key, value) ==
  [db EXCEPT ![key] = [present |-> TRUE, val |-> value, exp |-> NoExpiry]]
\* EXPIRE key seconds: a key that exists expires `seconds` from now
RedisExpire(db, key, seconds, t) ==
  IF db[key].present THEN [db EXCEPT ![key].exp = t + seconds] ELSE db
RedisExists(db, key) == db[key].present
RedisDel(db, key) == [db EXCEPT ![key] = NoKey]
RedisGet(db, key) == IF db[key].present THEN db[key].val ELSE <<>>
\* KEYS agent:*  the keys that start with the prefix, in an order the store picks
RedisKeysMatching(db, prefix) ==
  {k \in RedisKeys : db[k].present /\ Len(k) >= Len(prefix) /\ SubSeq(k, 1, Len(prefix)) = prefix}
\* the store drops a key when its time-to-live has run out
RedisPurge(db, t) ==
  [k \in RedisKeys |-> IF db[k].present /\ db[k].exp # NoExpiry /\ db[k].exp <= t THEN NoKey ELSE db[k]]

\* String.prototype.replace(pattern, ""): removes the first occurrence
replaceFirst(s, pat) ==
  IF includes(s, pat)
  THEN LET i == CHOOSE j \in 1..(Len(s) + 1 - Len(pat)) :
                  /\ SubSeq(s, j, j + Len(pat) - 1) = pat
                  /\ \A m \in 1..(j - 1) : SubSeq(s, m, m + Len(pat) - 1) # pat
       IN SubSeq(s, 1, i - 1) \o SubSeq(s, i + Len(pat), Len(s))
  ELSE s

\* all orders of a finite set, as sequences
Orders(S) == {q \in [1..Cardinality(S) -> S] : \A i, j \in 1..Cardinality(S) : i # j => q[i] # q[j]}

(***************************************************************************)
(* The registry's handlers.  In store mode every awaited store command is  *)
(* one step; in fallback mode a handler has no await and is one step.  A   *)
(* handler that has responded is gone; resp keeps the response it sent.    *)
(***************************************************************************)
Slots == {1, 2}
Idle == [op |-> "idle", pc |-> "idle", t0 |-> 0, agentId |-> "", payload |-> <<>>,
         secret |-> "", keys |-> <<>>, out |-> <<>>, stale |-> {}]
NoResponse == [op |-> "none", status |-> 0, agentId |-> "", out |-> <<>>]

\* Date.now(), in milliseconds
DateNow == now * 1000

Free(s) == rh[s].op = "idle" /\ \A s2 \in Slots : s2 < s => rh[s2].op # "idle"
Busy(a) == \E s \in Slots : rh[s].op \in {"register", "deregister"} /\ rh[s].agentId = a
Registering(a) == \E s \in Slots : rh[s].op = "register" /\ rh[s].agentId = a

\* a request arrives: the model's budget of requests and of overlapping requests
Accept(s) ==
  /\ Free(s)
  /\ started < MaxRequests
  /\ started' = started + 1
  /\ IF \E s2 \in Slots : rh[s2].op # "idle"
     THEN overlaps < MaxOverlaps /\ overlaps' = overlaps + 1
     ELSE UNCHANGED overlaps

Response(h, status) == [op |-> h.op, status |-> status, agentId |-> h.agentId, out |-> h.out]

\* history: a list in flight while a register or deregister of agent a is accepted
\* does not count as issued after it
Touch(handlers, a) ==
  [s \in Slots |-> IF handlers[s].op = "list" THEN [handlers[s] EXCEPT !.stale = @ \cup {a}]
                   ELSE handlers[s]]

NeverRegistered ==
  [payload |-> <<>>, t0 |-> 0 - 1, done |-> 0 - 1, clean |-> FALSE, changed |-> FALSE]

\* the fallback record, registry.ts:46
MemoryRecord(b, ms) ==
  [base_url |-> trim(b.base_url), tools |-> b.tools[2], secret_token |-> trim(b.secret_token),
   ttl |-> ms + HEARTBEAT_TTL * 1000]

MemoryRegisterKeepsFirst(mem, a, b, ms) ==
  IF ObjHas(mem, a) THEN mem ELSE ObjSet(mem, a, MemoryRecord(b, ms))

\* registry.ts:46  the fallback mapping after a register
MemoryRegister(mem, a, b, ms) == ObjSet(mem, a, MemoryRecord(b, ms))

\* registry.ts:31-50  POST /register: validation, then the first store command is sent
RegisterBegins(s, b) ==
  /\ LET a == trim(b.agent_id)
         h == [Idle EXCEPT !.op = "register", !.agentId = a]
     IN IF ~RegisterBodyOk(b)
        THEN /\ resp' = Response(h, 400)
             /\ UNCHANGED <<rh, redis, inMemoryAgents, lastReg>>
        ELSE LET p == JSONstringify(PublicObject(b))
                 r == [payload |-> p, t0 |-> now,
                       done |-> IF redisClient THEN 0 - 1 ELSE now,
                       clean |-> ~Busy(a),
                       changed |-> lastReg[a].payload # <<>> /\ lastReg[a].payload # p]
             IN /\ lastReg' = [lastReg EXCEPT ![a] = r]
                /\ IF redisClient
                   THEN /\ rh' = [Touch(rh, a) EXCEPT ![s] =
                                    [h EXCEPT !.pc = "set_data", !.payload = p,
                                              !.secret = trim(b.secret_token)]]
                        /\ UNCHANGED <<redis, inMemoryAgents, resp>>
                   ELSE /\ inMemoryAgents' = MemoryRegister(inMemoryAgents, a, b, DateNow)
                        /\ resp' = Response(h, 200)
                        /\ UNCHANGED <<rh, redis>>
  /\ UNCHANGED <<redisClient, now>>

\* the request is accepted within the model's budget
RegisterRecv(s, b) == Accept(s) /\ RegisterBegins(s, b)

\* registry.ts:41-44  the four awaited store commands of a register
RegisterCommand(db, h, t) ==
  CASE h.pc = "set_data" -> RedisSet(db, dataKey(h.agentId), h.payload)
    [] h.pc = "set_secret" -> RedisSet(db, secretKey(h.agentId), <<"str", h.secret>>)
    [] h.pc = "expire_data" -> RedisExpire(db, dataKey(h.agentId), HEARTBEAT_TTL, t)
    [] h.pc = "expire_secret" -> RedisExpire(db, secretKey(h.agentId), HEARTBEAT_TTL, t)

RegisterNextPc(pc) ==
  CASE pc = "set_data" -> "set_secret"
    [] pc = "set_secret" -> "expire_data"
    [] pc = "expire_data" -> "expire_secret"
    [] pc = "expire_secret" -> "done"

RegisterStep(s) ==
  /\ rh[s].op = "register"
  /\ redis' = RegisterCommand(redis, rh[s], now)
  /\ IF RegisterNextPc(rh[s].pc) = "done"
     THEN /\ rh' = [rh EXCEPT ![s] = Idle]
          /\ resp' = Response(rh[s], 200)
          /\ lastReg' = [lastReg EXCEPT ![rh[s].agentId].done =
                           IF \E s2 \in Slots \ {s} : rh[s2].op = "register" /\ rh[s2].agentId = rh[s].agentId
                           THEN @ ELSE now]
     ELSE /\ rh' = [rh EXCEPT ![s].pc = RegisterNextPc(rh[s].pc)]
          /\ UNCHANGED <<resp, lastReg>>
  /\ UNCHANGED <<redisClient, inMemoryAgents, now, started, overlaps>>

\* registry.ts:65-66  the fallback deregister
MemoryDeregister(mem, a) == IF ObjHas(mem, a) THEN ObjDelete(mem, a) ELSE mem

\* registry.ts:52-68  POST /deregister
DeregisterBegins(s, b) ==
  /\ LET a == trim(b.agent_id)
         h == [Idle EXCEPT !.op = "deregister", !.agentId = a]
     IN IF a = ""
        THEN /\ resp' = Response(h, 400)
             /\ UNCHANGED <<rh, inMemoryAgents, lastReg>>
        ELSE /\ lastReg' = [lastReg EXCEPT ![a].clean = FALSE]
             /\ IF redisClient
                THEN /\ rh' = [Touch(rh, a) EXCEPT ![s] = [h EXCEPT !.pc = "exists"]]
                     /\ UNCHANGED <<inMemoryAgents, resp>>
                ELSE /\ inMemoryAgents' = MemoryDeregister(inMemoryAgents, a)
                     /\ resp' = Response(h, IF ObjHas(inMemoryAgents, a) THEN 200 ELSE 404)
                     /\ UNCHANGED rh
  /\ UNCHANGED <<redisClient, redis, now>>

\* the request is accepted within the model's budget
DeregisterRecv(s, b) == Accept(s) /\ DeregisterBegins(s, b)

\* registry.ts:57-63  exists, then del of the data key, then del of the secret key
DeregisterStep(s) ==
  /\ rh[s].op = "deregister"
  /\ CASE rh[s].pc = "exists" ->
            IF RedisExists(redis, dataKey(rh[s].agentId))
            THEN /\ rh' = [rh EXCEPT ![s].pc = "del_data"]
                 /\ UNCHANGED <<redis, resp>>
            ELSE /\ rh' = [rh EXCEPT ![s] = Idle]
                 /\ resp' = Response(rh[s], 404)
                 /\ UNCHANGED redis
       [] rh[s].pc = "del_data" ->
            /\ redis' = RedisDel(redis, dataKey(rh[s].agentId))
            /\ rh' = [rh EXCEPT ![s].pc = "del_secret"]
            /\ UNCHANGED resp
       [] rh[s].pc = "del_secret" ->
            /\ redis' = RedisDel(redis, secretKey(rh[s].agentId))
            /\ rh' = [rh EXCEPT ![s] = Idle]
            /\ resp' = Response(rh[s], 200)
  /\ UNCHANGED <<redisClient, inMemoryAgents, now, started, overlaps, lastReg>>

\* registry.ts:84-86  the fallback listing: every entry of inMemoryAgents, in order
RECURSIVE ListMemory(_, _)
ListMemory(mem, out) ==
  IF Len(mem) = 0 THEN out
  ELSE ListMemory(Tail(mem),
                  ObjSet(out, Head(mem)[1], [base_url |-> Head(mem)[2].base_url, tools |-> Head(mem)[2].tools]))

ListOneKeyWithSecret(db, out, k) ==
  LET agentId == replaceFirst(k, AGENT_DATA_PREFIX)
      jsonStr == RedisGet(db, k)
  IN IF jsonStr = <<>> THEN out
     ELSE ObjSet(out, agentId, [base_url |-> JSONparse(jsonStr).base_url, tools |-> JSONparse(jsonStr).tools,
                                secret_token |-> RedisGet(db, secretKey(agentId))])

\* registry.ts:76-80  one pass of the loop over the keys
ListOneKey(db, out, k) ==
  LET agentId == replaceFirst(k, AGENT_DATA_PREFIX)
      jsonStr == RedisGet(db, k)
  IN IF jsonStr = <<>> THEN out
     ELSE ObjSet(out, agentId, [base_url |-> JSONparse(jsonStr).base_url, tools |-> JSONparse(jsonStr).tools])

\* registry.ts:70-89  GET /list_agents
ListBegins(s) ==
  /\ LET h == [Idle EXCEPT !.op = "list", !.t0 = now, !.stale = {a \in AgentIds : Busy(a)}]
     IN IF redisClient
        THEN /\ rh' = [rh EXCEPT ![s] = [h EXCEPT !.pc = "keys"]]
             /\ UNCHANGED resp
        ELSE /\ resp' = Response([h EXCEPT !.out = ListMemory(inMemoryAgents, <<>>)], 200)
             /\ UNCHANGED rh
  /\ UNCHANGED <<redisClient, redis, inMemoryAgents, now, lastReg>>

\* the request is accepted within the model's budget
ListRecv(s) == Accept(s) /\ ListBegins(s)

ListStep(s) ==
  /\ rh[s].op = "list"
  /\ IF rh[s].pc = "keys"
     THEN \E ks \in Orders(RedisKeysMatching(redis, AGENT_DATA_PREFIX)) :
            IF Len(ks) = 0
            THEN rh' = [rh EXCEPT ![s] = Idle] /\ resp' = Response(rh[s], 200)
            ELSE rh' = [rh EXCEPT ![s].pc = "get", ![s].keys = ks] /\ UNCHANGED resp
     ELSE LET h == [rh[s] EXCEPT !.out = ListOneKey(redis, rh[s].out, Head(rh[s].keys)),
                                 !.keys = Tail(rh[s].keys)]
          IN IF Len(h.keys) = 0
             THEN rh' = [rh EXCEPT ![s] = Idle] /\ resp' = Response(h, 200)
             ELSE rh' = [rh EXCEPT ![s] = h] /\ UNCHANGED resp
  /\ UNCHANGED <<redisClient, redis, inMemoryAgents, now, started, overlaps, lastReg>>

\* a second passes; the store drops the keys whose time-to-live ran out
Tick ==
  /\ now < MaxTime
  /\ now' = now + 1
  /\ redis' = RedisPurge(redis, now + 1)
  /\ UNCHANGED <<redisClient, inMemoryAgents, rh, started, overlaps, resp, lastReg>>

(***************************************************************************)
(* The registry on its own.                                                *)
(***************************************************************************)
\* registry.ts:11-23  the client object exists unless its construction threw
RegistryInit ==
  /\ redisClient \in BOOLEAN
  /\ redis = [k \in RedisKeys |-> NoKey]
  /\ inMemoryAgents = <<>>
  /\ now = 0
  /\ rh = [s \in Slots |-> Idle]
  /\ started = 0
  /\ overlaps = 0
  /\ resp = NoResponse
  /\ lastReg = [a \in AgentIds |-> NeverRegistered]
  /\ dropped = [a \in AgentIds |-> "no"]

\* a step in which the host neither fetches nor responds
HostSilent == lastFetch' = "none" /\ hresp' = <<>>

HostQuiet ==
  /\ discoveredTools = <<>>
  /\ discoveredAgentsData = <<>>
  /\ SPECIALIST_AGENTS_SECRETS = <<>>
  /\ boot = "fetch"
  /\ qh = <<>>
  /\ served = 0
  /\ crossed = 0
  /\ lastFetch = "none"
  /\ hresp = <<>>

SpecialistQuiet == ex = <<>>

\* the store answers throughout
StoreUp == reachable = TRUE

InitRegistry == RegistryInit /\ StoreUp /\ HostQuiet /\ SpecialistQuiet

NextRegistry ==
  \/ \E s \in Slots, b \in RegisterBodies : RegisterRecv(s, b) /\ HostSilent /\ UNCHANGED <<hostVars, ex, reachable, dropped>>
  \/ \E s \in Slots : RegisterStep(s) /\ HostSilent /\ UNCHANGED <<hostVars, ex, reachable, dropped>>
  \/ \E s \in Slots, b \in DeregisterBodies : DeregisterRecv(s, b) /\ HostSilent /\ UNCHANGED <<hostVars, ex, reachable, dropped>>
  \/ \E s \in Slots : DeregisterStep(s) /\ HostSilent /\ UNCHANGED <<hostVars, ex, reachable, dropped>>
  \/ \E s \in Slots : ListRecv(s) /\ HostSilent /\ UNCHANGED <<hostVars, ex, reachable, dropped>>
  \/ \E s \in Slots : ListStep(s) /\ HostSilent /\ UNCHANGED <<hostVars, ex, reachable, dropped>>
  \/ Tick /\ HostSilent /\ UNCHANGED <<hostVars, ex, reachable, dropped>>

SpecRegistry == InitRegistry /\ [][NextRegistry]_vars

(***************************************************************************)
(* The registry with a store that can be lost.  registry.ts assigns        *)
(* redisClient once, at lines 11-18: it is null only if the constructor    *)
(* threw.  Whether the constructor throws when the store cannot be reached *)
(* is the client library's choice, so both outcomes start a behaviour.     *)
(* A command awaited while the store is lost is never answered or is       *)
(* rejected.  /register and /deregister have no catch (lines 41-44, 57-60):*)
(* the request is left without a response (status 0) or the framework's    *)
(* error handler answers 500.  /list_agents catches (line 82) and answers  *)
(* 200 with what it has collected so far.  The clock stands still here.    *)
(***************************************************************************)
\* the store stops answering
StoreLost ==
  /\ reachable
  /\ reachable' = FALSE
  /\ UNCHANGED registryVars

NoAnswer == NoResponse.status
CommandOutcomes(op) == IF op = "list" THEN {NoAnswer, 200} ELSE {NoAnswer, 500}

\* registry.ts:41-44, 57-60, 74-77  an awaited store command fails
CommandFails(s) ==
  /\ ~reachable
  /\ rh[s].op # "idle"
  /\ rh' = [rh EXCEPT ![s] = Idle]
  /\ \E status \in CommandOutcomes(rh[s].op) : resp' = Response(rh[s], status)
  /\ UNCHANGED <<redisClient, redis, inMemoryAgents, now, started, overlaps, lastReg, reachable, dropped>>

InitOutage == RegistryInit /\ reachable \in BOOLEAN /\ HostQuiet /\ SpecialistQuiet

NextOutage ==
  \/ \E s \in Slots, b \in RegisterBodies : RegisterRecv(s, b) /\ HostSilent /\ UNCHANGED <<hostVars, ex, reachable, dropped>>
  \/ \E s \in Slots : reachable /\ RegisterStep(s) /\ HostSilent /\ UNCHANGED <<hostVars, ex, reachable, dropped>>
  \/ \E s \in Slots, b \in DeregisterBodies : DeregisterRecv(s, b) /\ HostSilent /\ UNCHANGED <<hostVars, ex, reachable, dropped>>
  \/ \E s \in Slots : reachable /\ DeregisterStep(s) /\ HostSilent /\ UNCHANGED <<hostVars, ex, reachable, dropped>>
  \/ \E s \in Slots : ListRecv(s) /\ HostSilent /\ UNCHANGED <<hostVars, ex, reachable, dropped>>
  \/ \E s \in Slots : reachable /\ ListStep(s) /\ HostSilent /\ UNCHANGED <<hostVars, ex, reachable, dropped>>
  \/ \E s \in Slots : CommandFails(s) /\ HostSilent /\ UNCHANGED <<hostVars, ex>>
  \/ StoreLost /\ HostSilent /\ UNCHANGED <<hostVars, ex, dropped>>

SpecOutage == InitOutage /\ [][NextOutage]_vars

(***************************************************************************)
(* The host agent: discovery cache, router and dispatcher (part_003).      *)
(***************************************************************************)
OwnedToolsAtBaseUrl(agentId, info) ==
  [i \in 1..Len(info.tools) |->
     [name |-> info.tools[i].name, description |-> info.tools[i].description,
      owner_agent_id |-> agentId, agent_execute_url |-> info.base_url]]

\* part_003:25-35  the tools of the listed agents, each with its owner and execute URL
OwnedTools(agentId, info) ==
  [i \in 1..Len(info.tools) |->
     [name |-> info.tools[i].name, description |-> info.tools[i].description,
      owner_agent_id |-> agentId, agent_execute_url |-> info.base_url \o "/execute"]]

RECURSIVE AllTools(_)
AllTools(registered) ==
  IF Len(registered) = 0 THEN <<>>
  ELSE OwnedTools(Head(registered)[1], Head(registered)[2]) \o AllTools(Tail(registered))

\* part_003:26-28  agentData[agentId] = info; info.tools are the tool objects of AllTools
RECURSIVE AgentData(_, _)
AgentData(registered, agentData) ==
  IF Len(registered) = 0 THEN agentData
  ELSE AgentData(Tail(registered),
                 ObjSet(agentData, Head(registered)[1],
                        [base_url |-> Head(registered)[2].base_url,
                         tools |-> OwnedTools(Head(registered)[1], Head(registered)[2])]))

FetchSucceededToolsOnly(registered) ==
  [tools |-> AllTools(registered), agents |-> discoveredAgentsData]

\* part_003:24-37  the snapshot after a list response: both globals are assigned
\* without an await between them
FetchSucceeded(registered) ==
  [tools |-> AllTools(registered), agents |-> AgentData(registered, <<>>)]

FetchFailedClears(tools, agents) == [tools |-> <<>>, agents |-> <<>>]

\* part_003:39-41  the snapshot after axios.get threw: nothing is assigned
FetchFailed(tools, agents) == [tools |-> tools, agents |-> agents]

aiKw == <<"inteligencia artificial", "ia", "ai", "ética", "etica", "modelo de ia">>
bioKw == <<"biologia", "ecologia", "biologo">>
capabilitiesKeywords ==
  <<"o que voce faz", "quais agentes", "ferramentas disponiveis", "capacidades", "o que pode">>

\* Array.prototype.some(k => q.includes(k))
someIncluded(kws, q) == \E x \in {q} : \E i \in 1..Len(kws) : includes(x, kws[i])

findLast(tools, passing) ==
  IF passing = {} THEN <<>>
  ELSE tools[CHOOSE i \in passing : \A j \in passing : i >= j]

\* Array.prototype.find: the first element that passes, or undefined (<<>>);
\* passing is the set of the indices whose element passes the test
find(tools, passing) ==
  IF passing = {} THEN <<>>
  ELSE tools[CHOOSE i \in passing : \A j \in passing : i <= j]

Decision(t) ==
  [tool_to_use |-> t.name, owner_agent_id |-> t.owner_agent_id, agent_execute_url |-> t.agent_execute_url]

aiTest(t) == includes(toLowerCase(t.name), "guia") \/ includes(toLowerCase(t.description), "ia")
bioTest(t) == includes(toLowerCase(t.name), "biolog") \/ includes(toLowerCase(t.description), "biolog")

\* part_003:44-59
heuristicRoute(query, tools) ==
  IF query = "" \/ Len(tools) = 0 THEN <<>>
  ELSE LET q == toLowerCase(query)
           ai == IF someIncluded(aiKw, q) THEN find(tools, {i \in 1..Len(tools) : aiTest(tools[i])}) ELSE <<>>
           bio == IF someIncluded(bioKw, q) THEN find(tools, {i \in 1..Len(tools) : bioTest(tools[i])}) ELSE <<>>
       IN IF ai # <<>> THEN Decision(ai)
          ELSE IF bio # <<>> THEN Decision(bio)
          ELSE <<>>

isCapabilitiesQueryNever(text) == FALSE

\* part_003:61-66
isCapabilitiesQuery(text) ==
  IF text = "" THEN FALSE
  ELSE someIncluded(capabilitiesKeywords, toLowerCase(trim(text)))

\* part_003:69-72
capabilityAgents(agentData) ==
  [i \in 1..Len(agentData) |->
     [agent_id |-> agentData[i][1], base_url |-> agentData[i][2].base_url,
      tools |-> [j \in 1..Len(agentData[i][2].tools) |->
                   [name |-> agentData[i][2].tools[j].name,
                    description |-> agentData[i][2].tools[j].description]]]]

\* the bullet of part_003:76 (U+2022) is written * here
RECURSIVE toolLines(_)
toolLines(tools) ==
  IF Len(tools) = 0 THEN ""
  ELSE "   * " \o Head(tools).name \o ": " \o Head(tools).description \o "\n" \o toolLines(Tail(tools))

RECURSIVE agentLines(_)
agentLines(agents) ==
  IF Len(agents) = 0 THEN ""
  ELSE "- " \o Head(agents).agent_id \o "\n" \o toolLines(Head(agents).tools) \o agentLines(Tail(agents))

\* part_003:68-79
formatCapabilitiesResponse(agentData) ==
  [answer |-> "Posso coordenar os seguintes agentes e ferramentas:\n" \o agentLines(capabilityAgents(agentData)),
   agents |-> capabilityAgents(agentData)]

explicacao ==
  "Olá! Sou o agente Host. Quando nao encontro um agente ideal, posso mostrar quem esta disponivel agora:\n\n"

(***************************************************************************)
(* The registry as the host meets it: each of its handlers runs to its     *)
(* response between two steps of the host.                                 *)
(***************************************************************************)
RECURSIVE ListKeys(_, _, _)
ListKeys(db, ks, out) ==
  IF Len(ks) = 0 THEN out ELSE ListKeys(db, Tail(ks), ListOneKey(db, out, Head(ks)))

\* registry.ts:72-82, 88  a store command of the listing fails: the catch logs,
\* and res.json sends what the loop had collected, nothing if it was the KEYS
\* command that failed
ListResponsesInterrupted ==
  UNION { {ListKeys(redis, SubSeq(ks, 1, n), <<>>) : n \in 0..(Len(ks) - 1)} \cup {<<>>} :
          ks \in Orders(RedisKeysMatching(redis, AGENT_DATA_PREFIX)) }

\* registry.ts:70-89  the responses GET /list_agents can give now
ListResponses ==
  IF redisClient
  THEN IF reachable
       THEN {ListKeys(redis, ks, <<>>) : ks \in Orders(RedisKeysMatching(redis, AGENT_DATA_PREFIX))}
       ELSE ListResponsesInterrupted
  ELSE {ListMemory(inMemoryAgents, <<>>)}

\* registry.ts:41-44
RegisterInStore(db, a, p, secret, t) ==
  RedisExpire(RedisExpire(RedisSet(RedisSet(db, dataKey(a), p), secretKey(a), <<"str", secret>>),
                          dataKey(a), HEARTBEAT_TTL, t),
              secretKey(a), HEARTBEAT_TTL, t)

DeregisterInStoreKeepsData(db, a) ==
  IF RedisExists(db, dataKey(a)) THEN RedisDel(db, secretKey(a)) ELSE db

\* registry.ts:57-63
DeregisterInStore(db, a) ==
  IF RedisExists(db, dataKey(a)) THEN RedisDel(RedisDel(db, dataKey(a)), secretKey(a)) ELSE db

\* registry.ts:31-50  a specialist registers
SpecialistRegisters(b) ==
  /\ started < MaxRegistered
  /\ started' = started + 1
  /\ RegisterBodyOk(b)
  /\ IF redisClient
     THEN /\ redis' = RegisterInStore(redis, trim(b.agent_id), JSONstringify(PublicObject(b)),
                                      trim(b.secret_token), now)
          /\ UNCHANGED inMemoryAgents
     ELSE /\ inMemoryAgents' = MemoryRegister(inMemoryAgents, trim(b.agent_id), b, DateNow)
          /\ UNCHANGED redis
  /\ UNCHANGED <<redisClient, now, rh, overlaps, resp, lastReg>>

\* registry.ts:52-68  the status of POST /deregister {agent_id: a}
DeregisterStatus(a) ==
  IF redisClient THEN (IF RedisExists(redis, dataKey(a)) THEN 200 ELSE 404)
  ELSE (IF ObjHas(inMemoryAgents, a) THEN 200 ELSE 404)

(***************************************************************************)
(* The host's handlers.  Every await of the code ends a step.              *)
(***************************************************************************)
Queries == {"", "O que voce faz?", "biologia marinha", "Biologo marinho", "qual a capital da franca"}

QSlots == {1, 2}
\* saw is discoveredTools.length as line 105 read it
NoQuery == [pc |-> "idle", userQuery |-> "", saw |-> 0, decision |-> <<>>, secretToken |-> "",
            agentInfo |-> <<>>, probe |-> "none", probes |-> 0, deregs |-> 0, forwards |-> 0,
            a2aMessage |-> <<>>]

QFree(s) == qh[s].pc = "idle" /\ \A s2 \in QSlots : s2 < s => qh[s2].pc # "idle"

\* res.status(status).json(...) of the handler h, with what h did
HostResponse(h, kind, status, body) ==
  [kind |-> kind, status |-> status, body |-> body, userQuery |-> h.userQuery,
   decision |-> h.decision, probe |-> h.probe, probes |-> h.probes, deregs |-> h.deregs,
   forwards |-> h.forwards, a2aMessage |-> h.a2aMessage]

\* part_003:21-42  fetchToolsFromRegistry: the list response arrives, or axios.get throws
Fetched(outcome, registered) ==
  IF outcome = "ok" THEN FetchSucceeded(registered)
  ELSE FetchFailed(discoveredTools, discoveredAgentsData)

FetchOutcomes == {<<"failed", <<>>>>} \cup {<<"ok", r>> : r \in ListResponses}

AfterBootFetchListens(tools) == "listening"

\* part_003:147-149  after the fetch: leave the loop, or sleep 5 s and fetch again
AfterBootFetch(tools) == IF Len(tools) > 0 THEN "listening" ELSE "sleep"

\* part_003:144-154  the bootstrap loop: fetch, then listen or sleep 5 s
BootFetchReturns ==
  /\ boot = "fetch"
  /\ \E o \in FetchOutcomes :
       /\ discoveredTools' = Fetched(o[1], o[2]).tools
       /\ discoveredAgentsData' = Fetched(o[1], o[2]).agents
       /\ lastFetch' = o[1]
       /\ boot' = AfterBootFetch(Fetched(o[1], o[2]).tools)
  /\ hresp' = <<>>
  /\ UNCHANGED <<SPECIALIST_AGENTS_SECRETS, qh, served, crossed>>

BootWakes ==
  /\ boot = "sleep"
  /\ boot' = "fetch"
  /\ UNCHANGED <<discoveredTools, discoveredAgentsData, SPECIALIST_AGENTS_SECRETS, qh, served,
                 crossed>>
  /\ HostSilent

ReceivedSkipsRefresh(h) == [h EXCEPT !.pc = "llm"]

\* part_003:104  await fetchToolsFromRegistry()
Received(h) == [h EXCEPT !.pc = "refresh"]

\* part_003:98-104  POST /query up to the await of fetchToolsFromRegistry
QueryRecv(s, q) ==
  /\ boot = "listening"
  /\ QFree(s)
  /\ served < MaxQueries
  /\ served' = served + 1
  /\ IF \E s2 \in QSlots : qh[s2].pc # "idle"
     THEN crossed < MaxCrossed /\ crossed' = crossed + 1
     ELSE UNCHANGED crossed
  /\ LET h == [NoQuery EXCEPT !.userQuery = q]
     IN IF q = ""
        THEN /\ hresp' = HostResponse(h, "empty_query", 400, <<>>)
             /\ UNCHANGED qh
        ELSE /\ qh' = [qh EXCEPT ![s] = Received(h)]
             /\ hresp' = <<>>
  /\ lastFetch' = "none"
  /\ UNCHANGED <<discoveredTools, discoveredAgentsData, SPECIALIST_AGENTS_SECRETS, boot>>

\* part_003:104-109  the fetch ends; the emptiness check, the capabilities check,
\* then the await of delegateToLLM
QueryRefreshReturns(s) ==
  /\ qh[s].pc = "refresh"
  /\ \E o \in FetchOutcomes :
       LET snap == Fetched(o[1], o[2])
       IN /\ discoveredTools' = snap.tools
          /\ discoveredAgentsData' = snap.agents
          /\ lastFetch' = o[1]
          /\ IF Len(snap.tools) = 0
             THEN /\ hresp' = HostResponse(qh[s], "no_agents", 503, <<>>)
                  /\ qh' = [qh EXCEPT ![s] = NoQuery]
             ELSE IF isCapabilitiesQuery(qh[s].userQuery)
             THEN /\ hresp' = HostResponse(qh[s], "capabilities", 200, formatCapabilitiesResponse(snap.agents))
                  /\ qh' = [qh EXCEPT ![s] = NoQuery]
             ELSE /\ qh' = [qh EXCEPT ![s].pc = "llm", ![s].saw = Len(snap.tools)]
                  /\ hresp' = <<>>
  /\ UNCHANGED <<SPECIALIST_AGENTS_SECRETS, boot, served, crossed>>

\* part_003:81-85  delegateToLLM
delegateToLLM(query) == <<>>

NoDecisionUnavailable(h, agentData) == HostResponse(h, "no_agents", 503, <<>>)

\* part_003:111-115  neither delegateToLLM nor heuristicRoute gave a decision
NoDecision(h, agentData) ==
  LET cap == formatCapabilitiesResponse(agentData)
  IN HostResponse(h, "fallback", 200, [answer |-> explicacao \o cap.answer, agents |-> cap.agents])

MissingTokenUnavailable(h) ==
  HostResponse([h EXCEPT !.probe = "failed", !.probes = 1, !.deregs = 1], "unavailable", 503, <<>>)

\* part_003:119-120  the routed agent has no credential in SPECIALIST_AGENTS_SECRETS
MissingToken(h) == HostResponse(h, "no_token", 500, <<>>)

ProbeSent(h, decision, secretToken, agentInfo) ==
  [h EXCEPT !.pc = "probe", !.decision = decision, !.secretToken = secretToken,
            !.agentInfo = agentInfo, !.probes = @ + 1, !.saw = 0]

\* part_003:109-127  routing, the credential, the agent's data, then the health probe is sent
QueryRoutes(s) ==
  /\ qh[s].pc = "llm"
  /\ \E llm \in {delegateToLLM(qh[s].userQuery)} :
     \E decision \in {IF llm = <<>> THEN heuristicRoute(qh[s].userQuery, discoveredTools) ELSE llm} :
     LET h == [qh[s] EXCEPT !.decision = decision, !.saw = 0]
     IN IF decision = <<>>
        THEN /\ hresp' = NoDecision(h, discoveredAgentsData)
             /\ qh' = [qh EXCEPT ![s] = NoQuery]
        ELSE IF ~ObjHas(SPECIALIST_AGENTS_SECRETS, decision.owner_agent_id)
        THEN /\ hresp' = MissingToken(h)
             /\ qh' = [qh EXCEPT ![s] = NoQuery]
        ELSE IF ~ObjHas(discoveredAgentsData, decision.owner_agent_id)
        THEN /\ hresp' = HostResponse(h, "no_agent_data", 500, <<>>)
             /\ qh' = [qh EXCEPT ![s] = NoQuery]
        ELSE /\ qh' = [qh EXCEPT ![s] =
                         ProbeSent(qh[s], decision,
                                   ObjGet(SPECIALIST_AGENTS_SECRETS, decision.owner_agent_id),
                                   ObjGet(discoveredAgentsData, decision.owner_agent_id))]
             /\ hresp' = <<>>
  /\ UNCHANGED <<discoveredTools, discoveredAgentsData, SPECIALIST_AGENTS_SECRETS, boot, served,
                 crossed>>
  /\ lastFetch' = "none"

ProbeFailedNoDeregister(h) == [h EXCEPT !.pc = "dereg", !.probe = "failed"]

\* part_003:128-129, 87-89  the probe threw: requestDeregistration posts one deregister
ProbeFailed(h) == [h EXCEPT !.pc = "dereg", !.probe = "failed", !.deregs = @ + 1]

ProbeSucceededOtherBearer(h) ==
  [h EXCEPT !.pc = "forward", !.probe = "ok", !.forwards = @ + 1,
            !.a2aMessage = [url |-> h.decision.agent_execute_url,
                            bearer |-> h.decision.owner_agent_id,
                            receiver_agent_id |-> h.decision.owner_agent_id,
                            payload_type |-> "text_query",
                            payload |-> [query |-> h.userQuery]]]

\* part_003:133-135  the probe answered: the A2AMessage is built and posted
ProbeSucceeded(h) ==
  [h EXCEPT !.pc = "forward", !.probe = "ok", !.forwards = @ + 1,
            !.a2aMessage = [url |-> h.decision.agent_execute_url,
                            bearer |-> h.secretToken,
                            receiver_agent_id |-> h.decision.owner_agent_id,
                            payload_type |-> "text_query",
                            payload |-> [query |-> h.userQuery]]]

\* part_003:129-130  after requestDeregistration, whatever became of it
Unavailable(h, deregistration) ==
  HostResponse([h EXCEPT !.probe = "failed"], "unavailable", 503, <<deregistration>>)

\* part_003:125-131  the health probe ends
QueryProbeReturns(s) ==
  /\ qh[s].pc = "probe"
  /\ \E alive \in BOOLEAN :
       IF alive
       THEN qh' = [qh EXCEPT ![s] = ProbeSucceeded(@)] /\ hresp' = <<>>
       ELSE IF qh[s].decision.owner_agent_id # ""
       THEN qh' = [qh EXCEPT ![s] = ProbeFailed(@)] /\ hresp' = <<>>
       ELSE qh' = [qh EXCEPT ![s] = NoQuery] /\ hresp' = Unavailable(qh[s], "skipped")
  /\ UNCHANGED <<discoveredTools, discoveredAgentsData, SPECIALIST_AGENTS_SECRETS, boot, served,
                 crossed>>
  /\ lastFetch' = "none"
  /\ UNCHANGED registryVars

\* part_003:87-94, 130  the deregister call ends: the registry answered 200 or 404
\* (axios throws on 404), or it was never reached; the handler answers 503 all the same
QueryDeregReturns(s) ==
  /\ qh[s].pc = "dereg"
  /\ LET a == qh[s].decision.owner_agent_id
     IN \E reached \in BOOLEAN :
          IF reached
          THEN /\ redis' = IF redisClient THEN DeregisterInStore(redis, a) ELSE redis
               /\ inMemoryAgents' = IF redisClient THEN inMemoryAgents ELSE MemoryDeregister(inMemoryAgents, a)
               /\ hresp' = Unavailable(qh[s], IF DeregisterStatus(a) = 200 THEN "deregistered" ELSE "not_found")
          ELSE /\ UNCHANGED <<redis, inMemoryAgents>>
               /\ hresp' = Unavailable(qh[s], "unreached")
  /\ qh' = [qh EXCEPT ![s] = NoQuery]
  /\ UNCHANGED <<discoveredTools, discoveredAgentsData, SPECIALIST_AGENTS_SECRETS, boot, served,
                 crossed>>
  /\ lastFetch' = "none"
  /\ UNCHANGED <<redisClient, now, rh, started, overlaps, resp, lastReg>>

\* what a specialist's POST /execute answers (monitoramento.ts:180)
SpecialistResults ==
  { [result |-> "resposta\n\nFontes: -", answer |-> "resposta\n\nFontes: -", sources |-> <<>>,
     chosen_temperature |-> 3, similarity |-> 50],
    [result |-> "", answer |-> "so answer", sources |-> <<"doc.pdf">>,
     chosen_temperature |-> 0, similarity |-> 0] }

\* part_003:136-137
Forwarded(h, r) ==
  HostResponse(h, "answer", 200,
               [answer |-> IF r.result # "" THEN r.result ELSE r.answer,
                source_agent_id |-> h.decision.owner_agent_id,
                source_tool |-> h.decision.tool_to_use,
                sources |-> r.sources, chosen_temperature |-> r.chosen_temperature,
                similarity |-> r.similarity])

ForwardFailedDeregisters(h, e) ==
  HostResponse([h EXCEPT !.deregs = @ + 1], "unavailable", 503, <<e>>)

\* part_003:138-141  axios.post threw: a status outside 2xx, or no response at all
ForwardFailed(h, e) == HostResponse(h, "bad_gateway", 502, <<e>>)

\* part_003:134-141  the forward ends: the specialist's answer, or a thrown error
QueryForwardReturns(s) ==
  /\ qh[s].pc = "forward"
  /\ \/ \E r \in SpecialistResults : hresp' = Forwarded(qh[s], r)
     \/ \E e \in {"status", "transport"} : hresp' = ForwardFailed(qh[s], e)
  /\ qh' = [qh EXCEPT ![s] = NoQuery]
  /\ UNCHANGED <<discoveredTools, discoveredAgentsData, SPECIALIST_AGENTS_SECRETS, boot, served,
                 crossed>>
  /\ lastFetch' = "none"
  /\ UNCHANGED registryVars

(***************************************************************************)
(* The host with the registry and the specialists around it.  The clock   *)
(* stands still here: agents enter the list by registering and leave it    *)
(* when the host deregisters them.                                         *)
(***************************************************************************)
\* part_003:8  SPECIALIST_AGENTS_SECRETS_JSON as the operator wrote it: the
\* credential of bio, none for guia
SecretsConfigurations == { <<<<"bio", "sb">>>> }

\* part_003:8-19  the host's state when its module has run
HostInit ==
  /\ discoveredTools = <<>>
  /\ discoveredAgentsData = <<>>
  /\ SPECIALIST_AGENTS_SECRETS \in SecretsConfigurations
  /\ boot = "fetch"
  /\ qh = [s \in QSlots |-> NoQuery]
  /\ served = 0
  /\ crossed = 0
  /\ lastFetch = "none"
  /\ hresp = <<>>

InitHost == RegistryInit /\ StoreUp /\ HostInit /\ ex = <<>>

NextHost ==
  \/ \E b \in RegisterBodies : SpecialistRegisters(b) /\ HostSilent /\ UNCHANGED <<hostVars, ex, reachable, dropped>>
  \/ BootFetchReturns /\ UNCHANGED <<registryVars, ex, reachable, dropped>>
  \/ BootWakes /\ UNCHANGED <<registryVars, ex, reachable, dropped>>
  \/ \E s \in QSlots, q \in Queries : QueryRecv(s, q) /\ UNCHANGED <<registryVars, ex, reachable, dropped>>
  \/ \E s \in QSlots : QueryRefreshReturns(s) /\ UNCHANGED <<registryVars, ex, reachable, dropped>>
  \/ \E s \in QSlots : QueryRoutes(s) /\ UNCHANGED <<registryVars, ex, reachable, dropped>>
  \/ \E s \in QSlots : QueryProbeReturns(s) /\ UNCHANGED <<ex, reachable, dropped>>
  \/ \E s \in QSlots : QueryDeregReturns(s) /\ UNCHANGED <<ex, reachable, dropped>>
  \/ \E s \in QSlots : QueryForwardReturns(s) /\ UNCHANGED <<ex, reachable, dropped>>

SpecHost == InitHost /\ [][NextHost]_vars

(***************************************************************************)
(* The host with the calls that end on their own.  fetchToolsFromRegistry  *)
(* (part_003:23, timeout 3000), the health probe (part_003:127, timeout    *)
(* 2000) and the deregister call (part_003:89, timeout 3000) end by an     *)
(* answer or by their timeout, and routing is local computation: these     *)
(* steps are weakly fair.  The forward (part_003:135) is posted with       *)
(* headers only; it ends when the specialist answers or the connection     *)
(* breaks, and nothing makes it end otherwise: it has no fairness.         *)
(***************************************************************************)
RefreshEnds(s) == QueryRefreshReturns(s) /\ UNCHANGED <<registryVars, ex, reachable, dropped>>
RoutingRuns(s) == QueryRoutes(s) /\ UNCHANGED <<registryVars, ex, reachable, dropped>>
ProbeEnds(s) == QueryProbeReturns(s) /\ UNCHANGED <<ex, reachable, dropped>>
DeregEnds(s) == QueryDeregReturns(s) /\ UNCHANGED <<ex, reachable, dropped>>

\* some handler's refresh, routing, probe or deregister call ends
TimedStep == \E s \in QSlots : RefreshEnds(s) \/ RoutingRuns(s) \/ ProbeEnds(s) \/ DeregEnds(s)

SpecTimeouts == SpecHost /\ WF_vars(TimedStep)

(***************************************************************************)
(* The host from its start, with its scheduling, the clock and one query   *)
(* at a time.  The timer of the bootstrap loop fires (part_003:149) and    *)
(* the fetch ends, by its answer or by its 3 s timeout (part_003:23): both *)
(* are weakly fair.  A registry that is there to be listed answers some of *)
(* the fetches that keep being sent to it: the fetch that succeeds is      *)
(* strongly fair.                                                          *)
(***************************************************************************)
BootWakesStep == BootWakes /\ UNCHANGED <<registryVars, ex, reachable, dropped>>
BootFetchStep == BootFetchReturns /\ UNCHANGED <<registryVars, ex, reachable, dropped>>
BootFetchSucceeds == BootFetchStep /\ lastFetch' = "ok"

\* one handler at a time
FirstSlot == CHOOSE s \in QSlots : \A s2 \in QSlots : s <= s2

NextBoot ==
  \/ \E b \in RegisterBodies : SpecialistRegisters(b) /\ HostSilent /\ UNCHANGED <<hostVars, ex, reachable, dropped>>
  \/ Tick /\ HostSilent /\ UNCHANGED <<hostVars, ex, reachable, dropped>>
  \/ BootFetchStep
  \/ BootWakesStep
  \/ \E q \in Queries : QueryRecv(FirstSlot, q) /\ UNCHANGED <<registryVars, ex, reachable, dropped>>
  \/ QueryRefreshReturns(FirstSlot) /\ UNCHANGED <<registryVars, ex, reachable, dropped>>
  \/ QueryRoutes(FirstSlot) /\ UNCHANGED <<registryVars, ex, reachable, dropped>>
  \/ QueryProbeReturns(FirstSlot) /\ UNCHANGED <<ex, reachable, dropped>>
  \/ QueryDeregReturns(FirstSlot) /\ UNCHANGED <<ex, reachable, dropped>>
  \/ QueryForwardReturns(FirstSlot) /\ UNCHANGED <<ex, reachable, dropped>>

SpecBoot ==
  /\ InitHost
  /\ [][NextBoot]_vars
  /\ WF_vars(BootWakesStep)
  /\ WF_vars(BootFetchStep)
  /\ SF_vars(BootFetchSucceeds)

(***************************************************************************)
(* The host with a record of its deregister calls.  dropped[a] becomes     *)
(* "deregistered" in the step in which the registry answers 200 to the     *)
(* host's deregister call for a (part_003:89, registry.ts:57-63), becomes  *)
(* "refreshed" when a fetchToolsFromRegistry of the host succeeds after    *)
(* that, and is "no" again as soon as a registers.                         *)
(***************************************************************************)
RegistersNoted(b) ==
  /\ SpecialistRegisters(b) /\ HostSilent /\ UNCHANGED <<hostVars, ex, reachable>>
  /\ dropped' = [dropped EXCEPT ![trim(b.agent_id)] = "no"]

AfterRefresh(d, outcome) ==
  IF outcome = "ok"
  THEN [a \in AgentIds |-> IF d[a] = "deregistered" THEN "refreshed" ELSE d[a]]
  ELSE d

RefreshNoted(s) ==
  /\ QueryRefreshReturns(s) /\ UNCHANGED <<registryVars, ex, reachable>>
  /\ dropped' = AfterRefresh(dropped, lastFetch')

DeregNoted(s) ==
  /\ QueryDeregReturns(s) /\ UNCHANGED <<ex, reachable>>
  /\ dropped' = IF hresp'.body = <<"deregistered">>
                THEN [dropped EXCEPT ![qh[s].decision.owner_agent_id] = "deregistered"]
                ELSE dropped

NextDrop ==
  \/ \E b \in RegisterBodies : RegistersNoted(b)
  \/ BootFetchStep
  \/ BootWakesStep
  \/ \E s \in QSlots, q \in Queries : QueryRecv(s, q) /\ UNCHANGED <<registryVars, ex, reachable, dropped>>
  \/ \E s \in QSlots : RefreshNoted(s)
  \/ \E s \in QSlots : RoutingRuns(s)
  \/ \E s \in QSlots : ProbeEnds(s)
  \/ \E s \in QSlots : DeregNoted(s)
  \/ \E s \in QSlots : QueryForwardReturns(s) /\ UNCHANGED <<ex, reachable, dropped>>

SpecDrop == InitHost /\ [][NextDrop]_vars

(***************************************************************************)
(* The host against a registry whose store can be lost.  The keys stay in  *)
(* the store, which no longer answers: /register has no catch and changes  *)
(* nothing, the host's deregister call is answered 500 or not at all       *)
(* (requestDeregistration swallows both, part_003:90-93), and /list_agents *)
(* answers 200 with what its catch left in out (registry.ts:82, 88) or     *)
(* does not answer within the host's 3 s.  The fallback registry has no    *)
(* store to lose.                                                          *)
(***************************************************************************)
StoreAnswers == reachable \/ ~redisClient

NextStoreError ==
  \/ \E b \in RegisterBodies :
       StoreAnswers /\ SpecialistRegisters(b) /\ HostSilent /\ UNCHANGED <<hostVars, ex, reachable, dropped>>
  \/ redisClient /\ StoreLost /\ HostSilent /\ UNCHANGED <<hostVars, ex, dropped>>
  \/ BootFetchStep
  \/ BootWakesStep
  \/ \E s \in QSlots, q \in Queries : QueryRecv(s, q) /\ UNCHANGED <<registryVars, ex, reachable, dropped>>
  \/ \E s \in QSlots : RefreshEnds(s)
  \/ \E s \in QSlots : RoutingRuns(s)
  \/ \E s \in QSlots : ProbeEnds(s)
  \/ \E s \in QSlots : DeregEnds(s) /\ (StoreAnswers \/ hresp'.body = <<"unreached">>)
  \/ \E s \in QSlots : QueryForwardReturns(s) /\ UNCHANGED <<ex, reachable, dropped>>

SpecStoreError == InitHost /\ [][NextStoreError]_vars

(***************************************************************************)
(* The specialist (monitoramento.ts): POST /execute.  Every await of the   *)
(* handler ends a step; scores are in hundredths, so 0.35 is 35.           *)
(***************************************************************************)
AGENT_SECRET_TOKEN == "secret"
respostaPadrao == "Nao encontrei material sobre este topico especifico nas minhas diretrizes."
temps == <<"0.3", "0.6", "0.9">>
ANCHOR_THRESHOLD == 35

\* what the model can answer, and what calcularSimilaridadeMaxima can make of it
Texts == {"resposta a", "resposta b"}
Scores == {0, 34, 35, 50}
Authorizations == {"", "Bearer secret", "Bearer outro"}
ExecuteQueries == {"", "etica em ia"}
SourceNames == {<<>>, <<"docs/guia.pdf", "", "etica.pdf">>}

NoExecute ==
  [pc |-> "idle", auth |-> "", query |-> "", similarity |-> <<>>, sourceNames |-> <<>>, i |-> 0,
   candidates |-> <<>>, respostaFinal |-> "", bestTemp |-> "null", bestScore |-> 0,
   retrievals |-> 0, invocations |-> 0, appended |-> 0, res |-> <<>>]

isAnchorAlways(score) == TRUE

\* monitoramento.ts:154
isAnchor(score) == score >= ANCHOR_THRESHOLD

\* Array.prototype.filter(c => c.isAnchor)
RECURSIVE anchoredOf(_)
anchoredOf(candidates) ==
  IF Len(candidates) = 0 THEN <<>>
  ELSE IF Head(candidates).isAnchor THEN <<Head(candidates)>> \o anchoredOf(Tail(candidates))
  ELSE anchoredOf(Tail(candidates))

\* Array.prototype.reduce((a, b) => (a.score > b.score ? a : b)) without an
\* initial value: the accumulator starts at the first element
RECURSIVE reduce(_, _)
reduce(a, rest) ==
  IF Len(rest) = 0 THEN a
  ELSE reduce(IF a.score > Head(rest).score THEN a ELSE Head(rest), Tail(rest))

\* monitoramento.ts:162-172
Selection(candidates) ==
  LET anchored == anchoredOf(candidates)
  IN IF Len(anchored) > 0
     THEN LET best == reduce(Head(anchored), Tail(anchored))
          IN [respostaFinal |-> best.text, bestTemp |-> best.temp, bestScore |-> best.score]
     ELSE [respostaFinal |-> respostaPadrao, bestTemp |-> "null", bestScore |-> 0]

\* s.split('/').pop()
RECURSIVE lastSegment(_, _)
lastSegment(s, acc) ==
  IF Len(s) = 0 THEN acc
  ELSE IF SubSeq(s, 1, 1) = "/" THEN lastSegment(SubSeq(s, 2, Len(s)), "")
  ELSE lastSegment(SubSeq(s, 2, Len(s)), acc \o SubSeq(s, 1, 1))

\* (sourceNames || []).filter(Boolean).map(s => s.split('/').pop())
RECURSIVE displaySources(_)
displaySources(names) ==
  IF Len(names) = 0 THEN <<>>
  ELSE IF Head(names) = "" THEN displaySources(Tail(names))
  ELSE <<lastSegment(Head(names), "")>> \o displaySources(Tail(names))

\* Array.prototype.join(' e ')
RECURSIVE join(_)
join(names) ==
  IF Len(names) = 0 THEN ""
  ELSE IF Len(names) = 1 THEN Head(names)
  ELSE Head(names) \o " e " \o join(Tail(names))

\* monitoramento.ts:174-176
fontesLine(names) ==
  IF Len(displaySources(names)) > 0 THEN "Fontes: " \o join(displaySources(names)) ELSE "Fontes: -"

ExecuteChecksQueryFirst(auth, query) ==
  IF query = "" THEN 400
  ELSE IF auth = "" \/ auth # "Bearer " \o AGENT_SECRET_TOKEN THEN 403
  ELSE 200

\* monitoramento.ts:132-138  the token check, then the query check: the status of
\* the early return, or 200 when the request goes on
ExecuteChecks(auth, query) ==
  IF auth = "" \/ auth # "Bearer " \o AGENT_SECRET_TOKEN THEN 403
  ELSE IF query = "" THEN 400
  ELSE 200

\* monitoramento.ts:131-141  the token check, the query check, then retrieval is awaited
ExecuteRecv(auth, query) ==
  /\ ex.pc = "idle"
  /\ ex' = IF ExecuteChecks(auth, query) # 200
           THEN [NoExecute EXCEPT !.auth = auth, !.query = query,
                                  !.res = [status |-> ExecuteChecks(auth, query), body |-> <<>>]]
           ELSE [NoExecute EXCEPT !.pc = "retrieve", !.auth = auth, !.query = query,
                                  !.retrievals = 1]

\* monitoramento.ts:141-143, 181-183  retrieveAndFormat ends: it threw, or it gave
\* the source names and the documents every candidate will be scored against
RetrieveReturns ==
  /\ ex.pc = "retrieve"
  /\ \/ ex' = [ex EXCEPT !.pc = "idle", !.res = [status |-> 500, body |-> <<>>]]
     \/ \E sim \in [Texts -> Scores], names \in SourceNames :
          ex' = [ex EXCEPT !.pc = "append_input", !.similarity = sim, !.sourceNames = names]

\* monitoramento.ts:143  appendConversation of the query ends; a throw is caught
InputAppended ==
  /\ ex.pc = "append_input"
  /\ \E ok \in BOOLEAN :
       ex' = [ex EXCEPT !.pc = "invoke", !.i = 1, !.invocations = 1,
                        !.appended = IF ok THEN @ + 1 ELSE @]

GenerationFailedDropsAll(candidates) == <<>>

\* monitoramento.ts:157-159  the catch inside the loop: nothing is pushed
GenerationFailed(candidates) == candidates

\* monitoramento.ts:148-172  invokeModelWithTemperature at temps[i] ends: a text,
\* scored and pushed, or a throw that is caught; after the last temperature the
\* selection runs and appendConversation of the answer is awaited
InvokeReturns ==
  /\ ex.pc = "invoke"
  /\ \E outcome \in Texts \cup {"throw"} :
       LET candidates ==
             IF outcome = "throw" THEN GenerationFailed(ex.candidates)
             ELSE Append(ex.candidates,
                         [text |-> outcome, isAnchor |-> isAnchor(ex.similarity[outcome]),
                          score |-> ex.similarity[outcome], temp |-> temps[ex.i]])
       IN IF ex.i < Len(temps)
          THEN ex' = [ex EXCEPT !.candidates = candidates, !.i = @ + 1, !.invocations = @ + 1]
          ELSE ex' = [ex EXCEPT !.candidates = candidates, !.pc = "append_answer",
                                !.respostaFinal = Selection(candidates).respostaFinal \o "\n\n"
                                                  \o fontesLine(ex.sourceNames),
                                !.bestTemp = Selection(candidates).bestTemp,
                                !.bestScore = Selection(candidates).bestScore]

\* monitoramento.ts:178-180  appendConversation of the answer ends; the response
AnswerAppended ==
  /\ ex.pc = "append_answer"
  /\ \E ok \in BOOLEAN :
       ex' = [ex EXCEPT !.pc = "idle", !.appended = IF ok THEN @ + 1 ELSE @,
                        !.res = [status |-> 200,
                                 body |-> [answer |-> ex.respostaFinal, result |-> ex.respostaFinal,
                                           sources |-> ex.sourceNames,
                                           chosen_temperature |-> ex.bestTemp,
                                           similarity |-> ex.bestScore]]]

InitSpecialist == RegistryInit /\ StoreUp /\ ~redisClient /\ HostQuiet /\ ex = NoExecute

NextSpecialist ==
  \/ \E auth \in Authorizations, query \in ExecuteQueries :
       ExecuteRecv(auth, query) /\ HostSilent /\ UNCHANGED <<registryVars, hostVars, reachable, dropped>>
  \/ RetrieveReturns /\ HostSilent /\ UNCHANGED <<registryVars, hostVars, reachable, dropped>>
  \/ InputAppended /\ HostSilent /\ UNCHANGED <<registryVars, hostVars, reachable, dropped>>
  \/ InvokeReturns /\ HostSilent /\ UNCHANGED <<registryVars, hostVars, reachable, dropped>>
  \/ AnswerAppended /\ HostSilent /\ UNCHANGED <<registryVars, hostVars, reachable, dropped>>

SpecSpecialist == InitSpecialist /\ [][NextSpecialist]_vars



(***************************************************************************)
(* Claims about the registry.                                              *)
(***************************************************************************)
\* the step in which the list handler of slot s sends its response (store mode)
StoreListAnswers(s) == rh[s].op = "list" /\ rh'[s].op = "idle"
\* the step in which a list is accepted and answered at once (fallback mode)
MemoryListAnswers == ~redisClient /\ started' # started /\ resp'.op = "list"

\* agent a registered, its latest register call completed at lastReg[a].done, and
\* the list was issued more than the time-to-live after that
OutlivedTtl(a, t0) ==
  /\ lastReg[a].done >= 0
  /\ ~Registering(a)
  /\ t0 > lastReg[a].done + HEARTBEAT_TTL

\* C1: in either storage mode, an agent that registered at time t and did not
\* register again is omitted by every list issued after t + T_ttl.
C1_ExpiredAgentsAreOmitted ==
  [][\A a \in AgentIds :
       /\ \A s \in Slots : StoreListAnswers(s) /\ OutlivedTtl(a, rh[s].t0) => ~ObjHas(resp'.out, a)
       /\ MemoryListAnswers /\ OutlivedTtl(a, now) => ~ObjHas(resp'.out, a)]_vars

\* the latest register of a completed undisturbed before the list was issued, no
\* deregister of a followed it, and the list answers within its time-to-live
LiveRegistration(a, stale) ==
  /\ lastReg[a].done >= 0
  /\ lastReg[a].clean
  /\ ~Busy(a)
  /\ a \notin stale
  /\ now < lastReg[a].t0 + HEARTBEAT_TTL

ListedOnceAs(out, a, payload) ==
  /\ Cardinality({i \in 1..Len(out) : out[i][1] = a}) = 1
  /\ ObjGet(out, a) = JSONparse(payload)

OtherSecret == "outro"
MemoryWithSecret(mem, a, x) ==
  [i \in 1..Len(mem) |->
     IF mem[i][1] = a THEN <<a, [mem[i][2] EXCEPT !.secret_token = x]>> ELSE mem[i]]
StoreWithSecret(db, a, x) ==
  IF db[secretKey(a)].present THEN [db EXCEPT ![secretKey(a)].val = <<"str", x>>] ELSE db
OnlyPublicFields(out) == \A i \in 1..Len(out) : DOMAIN out[i][2] = {"base_url", "tools"}

\* C12: after every sequence of register and deregister calls a list result holds
\* for each agent only base_url and tools, and two registry states that differ
\* only in the stored secret tokens give the same list results.
C12_ListHidesSecrets ==
  /\ resp.op = "list" => OnlyPublicFields(resp.out)
  /\ \A a \in AgentIds :
       IF redisClient
       THEN \A ks \in Orders(RedisKeysMatching(redis, AGENT_DATA_PREFIX)) :
              /\ OnlyPublicFields(ListKeys(redis, ks, <<>>))
              /\ ListKeys(StoreWithSecret(redis, a, OtherSecret), ks, <<>>) = ListKeys(redis, ks, <<>>)
       ELSE /\ OnlyPublicFields(ListMemory(inMemoryAgents, <<>>))
            /\ ListMemory(MemoryWithSecret(inMemoryAgents, a, OtherSecret), <<>>)
                 = ListMemory(inMemoryAgents, <<>>)

\* two agents with their secrets are stored and a list has answered with both
C12_Witness ==
  /\ resp.op = "list"
  /\ Len(resp.out) = 2
  /\ IF redisClient
     THEN \A a \in AgentIds : redis[secretKey(a)].present /\ redis[secretKey(a)].val # <<"str", OtherSecret>>
     ELSE Len(inMemoryAgents) = 2 /\ \A i \in 1..2 : inMemoryAgents[i][2].secret_token # OtherSecret

\* a request is accepted in this step
Arrives == started' = started + 1

\* C13: when the store cannot be reached, at startup or later, a register,
\* deregister or list request is served from the in-process mapping: it is
\* answered at once (no store command is awaited, nothing fails or hangs), a
\* register leaves its agent in the mapping and a list returns the mapping.
C13_LostStoreServedFromMemory ==
  [][~reachable /\ Arrives =>
       /\ rh' = rh
       /\ resp'.status \in {200, 400, 404}
       /\ resp'.op = "register" /\ resp'.status = 200 => ObjHas(inMemoryAgents', resp'.agentId)
       /\ resp'.op = "list" => resp'.out = ListMemory(inMemoryAgents, <<>>)]_vars

\* the fallback holds a record of agent a whose ttl (registry.ts:46) has not passed
MemoryLive(a) == ObjHas(inMemoryAgents, a) /\ ObjGet(inMemoryAgents, a).ttl > DateNow
\* every key but those of agent a is as it was
OtherKeysUnchanged(a) ==
  \A k \in RedisKeys \ {dataKey(a), secretKey(a)} : redis'[k] = redis[k]
OtherRecordsUnchanged(a) ==
  \A a2 \in AgentIds \ {a} :
    /\ ObjHas(inMemoryAgents', a2) = ObjHas(inMemoryAgents, a2)
    /\ ObjHas(inMemoryAgents, a2) => ObjGet(inMemoryAgents', a2) = ObjGet(inMemoryAgents, a2)

\* C20: a deregister answers success exactly when a live record of the agent
\* exists, and then both its data and its secret are gone and no list names the
\* agent; when no live record exists it answers 404; in both cases every other
\* record is left as it was.
C20_DeregisterRemovesLiveRecord ==
  [][\A a \in AgentIds :
       /\ ~redisClient /\ Arrives /\ resp'.op = "deregister" /\ resp'.agentId = a =>
            /\ OtherRecordsUnchanged(a)
            /\ IF MemoryLive(a)
               THEN /\ resp'.status = 200
                    /\ ~ObjHas(inMemoryAgents', a)
                    /\ ~ObjHas(ListMemory(inMemoryAgents', <<>>), a)
               ELSE /\ resp'.status = 404
                    /\ inMemoryAgents' = inMemoryAgents
       /\ \A s \in Slots :
            redisClient /\ rh[s].op = "deregister" /\ rh[s].agentId = a /\ rh'[s] # rh[s] =>
              /\ OtherKeysUnchanged(a)
              /\ rh[s].pc = "exists" =>
                   /\ redis' = redis
                   /\ IF RedisExists(redis, dataKey(a))
                      THEN rh'[s].pc = "del_data"
                      ELSE rh'[s] = Idle /\ resp'.status = 404
              /\ rh[s].pc = "del_secret" =>
                   /\ rh'[s] = Idle /\ resp'.status = 200
                   /\ ~RedisExists(redis', dataKey(a)) /\ ~RedisExists(redis', secretKey(a))
                   /\ \A ks \in Orders(RedisKeysMatching(redis', AGENT_DATA_PREFIX)) :
                        ~ObjHas(ListKeys(redis', ks, <<>>), a)]_vars

(***************************************************************************)
(* The registry with requests that overlap freely: a request is accepted   *)
(* whenever a handler slot is free, whatever is in flight.  The clock      *)
(* stands still here.                                                      *)
(***************************************************************************)
AcceptOverlapping(s) ==
  /\ Free(s)
  /\ started < MaxRequests
  /\ started' = started + 1
  /\ UNCHANGED overlaps

NextRace ==
  \/ \E s \in Slots, b \in RegisterBodies :
       AcceptOverlapping(s) /\ RegisterBegins(s, b) /\ HostSilent /\ UNCHANGED <<hostVars, ex, reachable, dropped>>
  \/ \E s \in Slots : RegisterStep(s) /\ HostSilent /\ UNCHANGED <<hostVars, ex, reachable, dropped>>
  \/ \E s \in Slots, b \in DeregisterBodies :
       AcceptOverlapping(s) /\ DeregisterBegins(s, b) /\ HostSilent /\ UNCHANGED <<hostVars, ex, reachable, dropped>>
  \/ \E s \in Slots : DeregisterStep(s) /\ HostSilent /\ UNCHANGED <<hostVars, ex, reachable, dropped>>
  \/ \E s \in Slots : AcceptOverlapping(s) /\ ListBegins(s) /\ HostSilent /\ UNCHANGED <<hostVars, ex, reachable, dropped>>
  \/ \E s \in Slots : ListStep(s) /\ HostSilent /\ UNCHANGED <<hostVars, ex, reachable, dropped>>

SpecRace == InitRegistry /\ [][NextRace]_vars

\* no handler is in flight
Quiescent == \A s \in Slots : rh[s].op = "idle"
WhollyPresent(a) ==
  /\ redis[dataKey(a)].present /\ redis[secretKey(a)].present
  /\ redis[dataKey(a)].exp = now + HEARTBEAT_TTL
  /\ redis[secretKey(a)].exp = now + HEARTBEAT_TTL
  /\ \A ks \in Orders(RedisKeysMatching(redis, AGENT_DATA_PREFIX)) :
       ObjHas(ListKeys(redis, ks, <<>>), a)
WhollyAbsent(a) == ~redis[dataKey(a)].present /\ ~redis[secretKey(a)].present

\* C15: under every interleaving of the store commands of register, deregister
\* and list calls, once no call is in flight the record of each agent is wholly
\* present (data and secret stored, both with the time-to-live, the agent
\* listed) or wholly absent.
C15_RegisterIsAtomic ==
  Quiescent /\ redisClient => \A a \in AgentIds : WhollyPresent(a) \/ WhollyAbsent(a)

(***************************************************************************)
(* Two registries side by side, one in each storage mode, given the same   *)
(* calls one after the other at the same times: redis is the store of the  *)
(* registry that has a client, inMemoryAgents the mapping of the registry  *)
(* that has none.  resp is the response of the first.                      *)
(***************************************************************************)
\* registry.ts:31-50  POST /register at both
BothRegister(b) ==
  /\ started < MaxRequests
  /\ started' = started + 1
  /\ LET a == trim(b.agent_id)
         h == [Idle EXCEPT !.op = "register", !.agentId = a]
     IN IF RegisterBodyOk(b)
        THEN /\ redis' = RegisterInStore(redis, a, JSONstringify(PublicObject(b)),
                                         trim(b.secret_token), now)
             /\ inMemoryAgents' = MemoryRegister(inMemoryAgents, a, b, DateNow)
             /\ resp' = Response(h, 200)
        ELSE /\ resp' = Response(h, 400)
             /\ UNCHANGED <<redis, inMemoryAgents>>
  /\ UNCHANGED <<redisClient, now, rh, overlaps, lastReg>>

\* registry.ts:57-58  the status of a deregister in store mode
StoreDeregisterStatus(db, a) == IF RedisExists(db, dataKey(a)) THEN 200 ELSE 404
\* registry.ts:65-66  the status of a deregister in fallback mode
MemoryDeregisterStatus(mem, a) == IF ObjHas(mem, a) THEN 200 ELSE 404

\* registry.ts:52-68  POST /deregister at both
BothDeregister(b) ==
  /\ started < MaxRequests
  /\ started' = started + 1
  /\ LET a == trim(b.agent_id)
         h == [Idle EXCEPT !.op = "deregister", !.agentId = a]
     IN IF a = ""
        THEN /\ resp' = Response(h, 400)
             /\ UNCHANGED <<redis, inMemoryAgents>>
        ELSE /\ redis' = DeregisterInStore(redis, a)
             /\ inMemoryAgents' = MemoryDeregister(inMemoryAgents, a)
             /\ resp' = Response(h, StoreDeregisterStatus(redis, a))
  /\ UNCHANGED <<redisClient, now, rh, overlaps, lastReg>>

\* registry.ts:70-89  GET /list_agents at both
BothList ==
  /\ started < MaxRequests
  /\ started' = started + 1
  /\ \E ks \in Orders(RedisKeysMatching(redis, AGENT_DATA_PREFIX)) :
       resp' = Response([Idle EXCEPT !.op = "list", !.out = ListKeys(redis, ks, <<>>)], 200)
  /\ UNCHANGED <<redisClient, redis, inMemoryAgents, now, rh, overlaps, lastReg>>

InitBoth == RegistryInit /\ redisClient /\ StoreUp /\ HostQuiet /\ SpecialistQuiet

NextBoth ==
  \/ \E b \in RegisterBodies : BothRegister(b) /\ HostSilent /\ UNCHANGED <<hostVars, ex, reachable, dropped>>
  \/ \E b \in DeregisterBodies : BothDeregister(b) /\ HostSilent /\ UNCHANGED <<hostVars, ex, reachable, dropped>>
  \/ BothList /\ HostSilent /\ UNCHANGED <<hostVars, ex, reachable, dropped>>
  \/ Tick /\ HostSilent /\ UNCHANGED <<hostVars, ex, reachable, dropped>>

SpecBoth == InitBoth /\ [][NextBoth]_vars

\* the agents of a list result with their entries, whatever their order
AsMapping(out) == {out[i] : i \in 1..Len(out)}

\* C14: after every sequence of register, deregister and list calls and clock
\* advances, the fallback registry answers the next call as the store-backed
\* registry does: a list names the same agents with the same entries and a
\* deregister has the same status (a register has the same status by
\* construction: lines 32-37 come before the choice of the mode).
C14_FallbackAnswersAsStore ==
  /\ \A ks \in Orders(RedisKeysMatching(redis, AGENT_DATA_PREFIX)) :
       AsMapping(ListKeys(redis, ks, <<>>)) = AsMapping(ListMemory(inMemoryAgents, <<>>))
  /\ \A a \in AgentIds :
       StoreDeregisterStatus(redis, a) = MemoryDeregisterStatus(inMemoryAgents, a)

(***************************************************************************)
(* Claims about the host.                                                  *)
(***************************************************************************)
\* C2: when the health probe of the routed agent fails, the host issues exactly
\* one deregister call for that agent, never forwards the A2AMessage, and answers
\* 503, whatever becomes of the deregister call.
C2_FailedProbeDeregistersOnceAnd503 ==
  /\ \A s \in QSlots :
       qh[s].probe = "failed" =>
         /\ qh[s].pc = "dereg"
         /\ qh[s].deregs = 1
         /\ qh[s].forwards = 0
         /\ qh[s].a2aMessage = <<>>
  /\ hresp # <<>> /\ hresp.probe = "failed" =>
       /\ hresp.kind = "unavailable"
       /\ hresp.status = 503
       /\ hresp.body \in {<<"deregistered">>, <<"not_found">>, <<"unreached">>}
       /\ hresp.deregs = 1
       /\ hresp.forwards = 0
       /\ hresp.a2aMessage = <<>>

\* the probe failed, the deregister call never reached the registry, and the
\* caller has its 503
C2_Witness ==
  /\ hresp # <<>>
  /\ hresp.probe = "failed"
  /\ hresp.body = <<"unreached">>
  /\ hresp.status = 503

\* C6: when the registry is unreachable or times out during a refresh, the
\* snapshot (capability list and agent mapping) after the refresh is the
\* snapshot before it.
C6_FailedRefreshKeepsSnapshot ==
  [][lastFetch' = "failed" =>
       /\ discoveredTools' = discoveredTools
       /\ discoveredAgentsData' = discoveredAgentsData]_vars

\* a refresh has just failed and the snapshot still holds capabilities
C6_Witness ==
  /\ lastFetch = "failed"
  /\ Len(discoveredTools) > 0
  /\ Len(discoveredAgentsData) > 0

\* the capability list one list response gives, read off its agent mapping
RECURSIVE SnapshotTools(_)
SnapshotTools(agentData) ==
  IF Len(agentData) = 0 THEN <<>>
  ELSE Head(agentData)[2].tools \o SnapshotTools(Tail(agentData))

\* C7: under any interleaving of query handlers and refreshes, the capability
\* list and the agent mapping a handler can read are built from one and the same
\* list response.
C7_SnapshotFromOneResponse ==
  discoveredTools = SnapshotTools(discoveredAgentsData)

\* a handler waits in delegateToLLM while the refresh of another handler has
\* replaced the snapshot it saw by a longer or a shorter one
C7_Witness ==
  \E s \in QSlots :
    /\ qh[s].pc = "llm"
    /\ qh[s].saw # Len(discoveredTools)
    /\ Len(discoveredTools) > 0
    /\ \E s2 \in QSlots : s2 # s /\ qh[s2].pc = "llm"

CapabilitiesQuery == "O que voce faz?"

Routes(s) == qh[s].pc = "llm" /\ qh'[s].pc # "llm"
\* the decision that step took: with the probe it sent, or with its response
DecisionOf(s) == IF qh'[s].pc = "probe" THEN qh'[s].decision ELSE hresp'.decision

HasBiologyKeyword(query) == \E i \in 1..Len(bioKw) : includes(toLowerCase(query), bioKw[i])
IsBiologyCapability(t) ==
  includes(toLowerCase(t.name), "biolog") \/ includes(toLowerCase(t.description), "biolog")

\* C9: for every snapshot that holds a biology capability, a query with a
\* biology keyword is routed to a biology capability, whatever else the snapshot
\* holds and in whatever order.
C9_BiologyQueryRoutedToBiology ==
  [][\A s \in QSlots :
       /\ Routes(s)
       /\ HasBiologyKeyword(qh[s].userQuery)
       /\ \E i \in 1..Len(discoveredTools) : IsBiologyCapability(discoveredTools[i])
       => \E i \in 1..Len(discoveredTools) :
            /\ IsBiologyCapability(discoveredTools[i])
            /\ DecisionOf(s) = Decision(discoveredTools[i])]_vars

\* C10: whenever routing yields no decision for a non-capabilities query, the
\* host answers with a capabilities listing and performs no health probe, no
\* forward and no deregistration for that request.
C10_NoDecisionListsCapabilities ==
  [][\A s \in QSlots :
       /\ Routes(s)
       /\ delegateToLLM(qh[s].userQuery) = <<>>
       /\ heuristicRoute(qh[s].userQuery, discoveredTools) = <<>>
       => /\ qh'[s] = NoQuery
          /\ hresp'.userQuery = qh[s].userQuery
          /\ hresp'.kind = "fallback"
          /\ hresp'.status = 200
          /\ hresp'.body.agents = capabilityAgents(discoveredAgentsData)
          /\ hresp'.probes = 0 /\ hresp'.forwards = 0 /\ hresp'.deregs = 0
          /\ UNCHANGED registryVars]_vars

\* a query no keyword set matches has just been answered with the listing
C10_Witness ==
  /\ hresp # <<>>
  /\ hresp.kind = "fallback"
  /\ hresp.userQuery = "qual a capital da franca"
  /\ hresp.decision = <<>>
  /\ Len(hresp.body.agents) > 0

\* C11: if the routed agent has no entry in the configured credential mapping,
\* the host answers 500 and sends no health probe, no forward and no
\* deregistration for that request; the registry and the snapshot are unchanged.
C11_MissingCredentialAnswers500 ==
  [][\A s \in QSlots :
       LET d == heuristicRoute(qh[s].userQuery, discoveredTools)
       IN /\ Routes(s)
          /\ d # <<>>
          /\ ~ObjHas(SPECIALIST_AGENTS_SECRETS, d.owner_agent_id)
          => /\ qh'[s] = NoQuery
             /\ hresp'.userQuery = qh[s].userQuery
             /\ hresp'.decision = d
             /\ hresp'.status = 500
             /\ hresp'.probes = 0 /\ hresp'.forwards = 0 /\ hresp'.deregs = 0
             /\ hresp'.a2aMessage = <<>>
             /\ UNCHANGED registryVars
             /\ UNCHANGED <<discoveredTools, discoveredAgentsData>>]_vars

\* a query routed to guia, for which the host holds no credential, has just
\* been answered 500
C11_Witness ==
  /\ hresp # <<>>
  /\ hresp.kind = "no_token"
  /\ hresp.status = 500
  /\ hresp.decision # <<>>
  /\ ~ObjHas(SPECIALIST_AGENTS_SECRETS, hresp.decision.owner_agent_id)

\* the handler in slot s moves to position pc in this step
Reaches(s, pc) == qh[s].pc # pc /\ qh'[s].pc = pc

\* C17: a query with a non-empty query field starts a refresh when it is accepted,
\* and its handler comes to the emptiness and capabilities checks and to routing
\* only in the step that completes that refresh (successfully or not), to the
\* probe only from routing and to the forward only from the probe.
C17_RefreshBeforeAnythingElse ==
  [][\A s \in QSlots :
       /\ served' # served /\ qh'[s] # qh[s] =>
            /\ qh'[s].pc = "refresh" /\ qh'[s].userQuery # ""
            /\ lastFetch' = "none" /\ hresp' = <<>>
       /\ qh[s].pc = "refresh" /\ qh'[s] # qh[s] => lastFetch' \in {"ok", "failed"}
       /\ Reaches(s, "llm") => qh[s].pc = "refresh"
       /\ Reaches(s, "probe") => qh[s].pc = "llm"
       /\ Reaches(s, "forward") \/ Reaches(s, "dereg") => qh[s].pc = "probe"
       /\ hresp' # <<>> /\ hresp'.kind \in {"no_agents", "capabilities"} =>
            \E s2 \in QSlots : qh[s2].pc = "refresh" /\ qh'[s2] = NoQuery
       /\ hresp' # <<>> /\ hresp'.kind \in {"fallback", "no_token", "no_agent_data"} =>
            \E s2 \in QSlots : qh[s2].pc = "llm" /\ qh'[s2] = NoQuery]_vars

\* a handler whose refresh failed has gone on to routing
C17_Witness ==
  \E s \in QSlots : qh[s].pc = "llm" /\ qh[s].userQuery # "" /\ lastFetch = "failed"

\* the forward of the handler in slot s ends in this step
ForwardEnds(s) == qh[s].pc = "forward" /\ qh'[s] # qh[s]

\* C18: when the forward fails after a successful probe, by a status outside 2xx
\* or in transport, the host answers 502, has issued no deregistration in the
\* request, and the registry is left as it was.
C18_FailedForwardAnswers502 ==
  [][\A s \in QSlots :
       ForwardEnds(s) /\ hresp'.status # 200 =>
         /\ qh[s].probe = "ok"
         /\ hresp'.status = 502
         /\ hresp'.userQuery = qh[s].userQuery
         /\ hresp'.probes = 1 /\ hresp'.forwards = 1 /\ hresp'.deregs = 0
         /\ qh'[s] = NoQuery
         /\ UNCHANGED registryVars]_vars

\* a forward has failed and the routed agent is still listed
C18_Witness ==
  /\ hresp # <<>> /\ hresp.status = 502 /\ hresp.probe = "ok" /\ hresp.deregs = 0
  /\ \A r \in ListResponses : ObjHas(r, hresp.decision.owner_agent_id)

\* the host has just answered with a specialist's result
Dispatched == hresp # <<>> /\ hresp.status = 200 /\ hresp.forwards = 1

\* C19: on a successful dispatch the message carried the original query, went to
\* the execute URL of the routed agent (the base_url it registered, then
\* "/execute") with the secret configured for that agent as its bearer, and the
\* response names the routed agent as source_agent_id.
C19_DispatchCarriesQueryAndSecret ==
  Dispatched =>
    LET agentId == hresp.decision.owner_agent_id
    IN /\ hresp.a2aMessage.payload.query = hresp.userQuery
       /\ hresp.a2aMessage.receiver_agent_id = agentId
       /\ hresp.a2aMessage.url = hresp.decision.agent_execute_url
       /\ \E b \in RegisterBodies :
            /\ RegisterBodyOk(b) /\ trim(b.agent_id) = agentId
            /\ hresp.a2aMessage.url = trim(b.base_url) \o "/execute"
       /\ ObjHas(SPECIALIST_AGENTS_SECRETS, agentId)
       /\ hresp.a2aMessage.bearer = ObjGet(SPECIALIST_AGENTS_SECRETS, agentId)
       /\ hresp.body.source_agent_id = agentId

\* a query has been answered by the specialist it was routed to
C19_Witness ==
  /\ Dispatched
  /\ hresp.userQuery # ""
  /\ hresp.body.source_agent_id = hresp.decision.owner_agent_id
  /\ hresp.a2aMessage.bearer # ""

HasAiKeyword(query) == \E i \in 1..Len(aiKw) : includes(toLowerCase(query), aiKw[i])
IsAiCapability(t) ==
  includes(toLowerCase(t.name), "guia") \/ includes(toLowerCase(t.description), "ia")
\* tools[i] is the first capability of the snapshot that passes the AI test
FirstAi(tools, i) == IsAiCapability(tools[i]) /\ \A j \in 1..(i - 1) : ~IsAiCapability(tools[j])
FirstBiology(tools, i) ==
  IsBiologyCapability(tools[i]) /\ \A j \in 1..(i - 1) : ~IsBiologyCapability(tools[j])
AiDomainMatches(query, tools) ==
  HasAiKeyword(query) /\ \E i \in 1..Len(tools) : IsAiCapability(tools[i])
BiologyDomainMatches(query, tools) ==
  HasBiologyKeyword(query) /\ \E i \in 1..Len(tools) : IsBiologyCapability(tools[i])

\* C23: the decision of every routing step is fixed by the query and the
\* snapshot alone: the first capability in snapshot order that passes the AI test
\* when the AI domain matches, else the first that passes the biology test when
\* the biology domain matches, else no decision.
C23_RoutingIsFirstMatch ==
  [][\A s \in QSlots :
       Routes(s) =>
         LET q == qh[s].userQuery
             tools == discoveredTools
         IN IF AiDomainMatches(q, tools)
            THEN \E i \in 1..Len(tools) : FirstAi(tools, i) /\ DecisionOf(s) = Decision(tools[i])
            ELSE IF BiologyDomainMatches(q, tools)
            THEN \E i \in 1..Len(tools) : FirstBiology(tools, i) /\ DecisionOf(s) = Decision(tools[i])
            ELSE DecisionOf(s) = <<>>]_vars

\* a decision was taken for a capability that is not the first of the snapshot
\* while a later capability passes the same test
C23_Witness ==
  /\ hresp # <<>> /\ hresp.decision # <<>>
  /\ Len(discoveredTools) >= 3
  /\ \E i \in 2..Len(discoveredTools), j \in 1..Len(discoveredTools) :
       /\ i < j
       /\ FirstAi(discoveredTools, i) /\ IsAiCapability(discoveredTools[j])
       /\ hresp.decision = Decision(discoveredTools[i])

\* C24: every query the host accepted eventually receives a response, whoever
\* stays silent among the registry, the probed agent and the specialist.
C24_EveryQueryIsAnswered ==
  \A s \in QSlots : (qh[s].pc # "idle") ~> (qh[s].pc = "idle")

\* every list the registry can answer now names at least one capability
RegistryLists == \A r \in ListResponses : Len(AllTools(r)) > 0

\* C16: the host accepts no query before a refresh has produced a snapshot with
\* at least one capability; a bootstrap fetch that leaves the snapshot empty is
\* followed by the sleep and the sleep by another fetch; and if from some time
\* on the registry lists a capability, the host eventually listens.
C16_ServesAfterDiscovery ==
  /\ [][boot' # boot /\ boot' = "listening" => lastFetch' = "ok" /\ Len(discoveredTools') > 0]_vars
  /\ [][served' # served => boot = "listening"]_vars
  /\ [][boot = "fetch" /\ boot' # "fetch" /\ Len(discoveredTools') = 0 => boot' = "sleep"]_vars
  /\ (boot = "sleep" ~> boot = "fetch")
  /\ (<>[]RegistryLists => <>(boot = "listening"))

\* the bootstrap fetch has just found a capability and the host listens
C16_Witness ==
  boot = "listening" /\ lastFetch = "ok" /\ served = 0 /\ Len(discoveredTools) > 0 /\ RegistryLists

(***************************************************************************)
(* Claims about the specialist.                                            *)
(***************************************************************************)
\* the handler has answered a request that got past retrieval
Answered == ex.pc = "idle" /\ ex.res # <<>> /\ ex.res.status = 200
\* respostaFinal once the source line is appended
WithSources(text) == text \o "\n\n" \o fontesLine(ex.sourceNames)
NoneAnchored == \A i \in 1..Len(ex.candidates) : ex.candidates[i].score < ANCHOR_THRESHOLD

\* C3: for every combination of candidate scores and generation outcomes, the
\* answer text (before the source line) is the refusal string or the text of a
\* candidate with score >= 0.35; when no candidate has score >= 0.35 the refusal
\* is returned with HTTP success, chosen_temperature null and similarity 0.
C3_AnswerIsAnchoredOrRefusal ==
  /\ ex.pc = "idle" /\ ex.res # <<>> /\ ex.invocations > 0 => ex.res.status = 200
  /\ Answered =>
       /\ \/ ex.res.body.answer = WithSources(respostaPadrao)
          \/ \E i \in 1..Len(ex.candidates) :
               /\ ex.candidates[i].score >= ANCHOR_THRESHOLD
               /\ ex.res.body.answer = WithSources(ex.candidates[i].text)
       /\ NoneAnchored =>
            /\ ex.res.body.answer = WithSources(respostaPadrao)
            /\ ex.res.body.chosen_temperature = "null"
            /\ ex.res.body.similarity = 0

\* three candidates were generated, the best scored just under the threshold,
\* and the refusal went out
C3_Witness ==
  /\ Answered
  /\ Len(ex.candidates) = 3
  /\ NoneAnchored
  /\ \E i \in 1..3 : ex.candidates[i].score = ANCHOR_THRESHOLD - 1
  /\ ex.res.body.answer = WithSources(respostaPadrao)

\* C4: among the anchored candidates the one with the highest score is selected,
\* and when several share the highest score, the one generated at the earliest
\* temperature of [0.3, 0.6, 0.9].
C4_HighestScoreEarliestTemperature ==
  Answered /\ ~NoneAnchored =>
    \E i \in 1..Len(ex.candidates) :
      /\ ex.candidates[i].score >= ANCHOR_THRESHOLD
      /\ \A j \in 1..Len(ex.candidates) : ex.candidates[j].score <= ex.candidates[i].score
      /\ \A j \in 1..(i - 1) : ex.candidates[j].score < ex.candidates[i].score
      /\ ex.res.body.chosen_temperature = ex.candidates[i].temp
      /\ ex.res.body.similarity = ex.candidates[i].score
      /\ ex.res.body.answer = WithSources(ex.candidates[i].text)

\* the handler returned before retrieval
Rejected == ex.pc = "idle" /\ ex.res # <<>> /\ ex.res.status \in {400, 403}
TokenAccepted == ex.auth = "Bearer " \o AGENT_SECRET_TOKEN

\* C21: an /execute request whose bearer token is missing or differs from the
\* agent's secret is answered 403 whatever its query; an authenticated request
\* without payload.query is answered 400; in both cases nothing was retrieved,
\* generated or logged; every other request goes on to retrieval.
C21_TokenThenQuery ==
  /\ ex.pc = "idle" /\ ex.res # <<>> /\ ~TokenAccepted => ex.res.status = 403
  /\ ex.pc = "idle" /\ ex.res # <<>> /\ TokenAccepted /\ ex.query = "" => ex.res.status = 400
  /\ Rejected =>
       /\ ~TokenAccepted \/ ex.query = ""
       /\ ex.retrievals = 0 /\ ex.invocations = 0 /\ ex.appended = 0
       /\ ex.candidates = <<>>
  /\ ex.pc # "idle" => TokenAccepted /\ ex.query # "" /\ ex.retrievals = 1

\* a request with a wrong token and no query was answered 403
C21_Witness ==
  Rejected /\ ex.res.status = 403 /\ ex.auth = "Bearer outro" /\ ex.query = ""

\* the candidate loop takes a step
Generates == ex.pc = "invoke" /\ ex' # ex
\* the candidates come from the temperatures in their order, one each at most
InTemperatureOrder(candidates) ==
  \A j, k \in 1..Len(candidates) :
    j < k => \E m, n \in 1..Len(temps) :
               m < n /\ candidates[j].temp = temps[m] /\ candidates[k].temp = temps[n]

\* C22: a generation that fails leaves the candidates of the other temperatures
\* as they are and the loop goes on to the next temperature; every answer comes
\* after all the temperatures were tried and selection ran over the candidates
\* that succeeded; when all failed the answer is the refusal with status 200.
C22_FailedGenerationSkipsOneCandidate ==
  /\ [][Generates =>
         /\ \/ ex'.candidates = ex.candidates
            \/ /\ Len(ex'.candidates) = Len(ex.candidates) + 1
               /\ SubSeq(ex'.candidates, 1, Len(ex.candidates)) = ex.candidates
               /\ ex'.candidates[Len(ex'.candidates)].temp = temps[ex.i]
         /\ IF ex.i < Len(temps)
            THEN ex'.pc = "invoke" /\ ex'.i = ex.i + 1 /\ ex'.invocations = ex.invocations + 1
            ELSE ex'.pc = "append_answer"]_vars
  /\ [](Answered =>
         /\ ex.invocations = Len(temps)
         /\ InTemperatureOrder(ex.candidates)
         /\ ex.candidates = <<>> =>
              /\ ex.res.body.answer = WithSources(respostaPadrao)
              /\ ex.res.body.chosen_temperature = "null"
         /\ \A j \in 1..Len(ex.candidates) :
              ex.candidates[j].score >= ANCHOR_THRESHOLD =>
                ex.res.body.answer # WithSources(respostaPadrao))

\* the generation at 0.6 failed, those at 0.3 and 0.9 succeeded, and the answer
\* is the candidate of 0.9
C22_Witness ==
  /\ Answered
  /\ Len(ex.candidates) = 2
  /\ ex.candidates[1].temp = temps[1] /\ ex.candidates[2].temp = temps[3]
  /\ ex.res.body.chosen_temperature = temps[3]
  /\ ex.res.body.answer = WithSources(ex.candidates[2].text)


\* the agents that own a capability of the snapshot or have data in it
SnapshotAgents ==
  {discoveredTools[i].owner_agent_id : i \in 1..Len(discoveredTools)}
    \cup {discoveredAgentsData[i][1] : i \in 1..Len(discoveredAgentsData)}

\* the decision the routing step of handler s made, <<>> if none
RoutedTo(s) == IF qh'[s].pc = "probe" THEN qh'[s].decision ELSE hresp'.decision

C26_SnapshotIsConsistent ==
  /\ \A i \in 1..Len(discoveredTools) :
       /\ ObjHas(discoveredAgentsData, discoveredTools[i].owner_agent_id)
       /\ discoveredTools[i].agent_execute_url =
            ObjGet(discoveredAgentsData, discoveredTools[i].owner_agent_id).base_url \o "/execute"
  /\ \A s \in QSlots : qh[s].pc \in {"probe", "dereg", "forward"}
       => /\ qh[s].agentInfo # <<>>
          /\ qh[s].decision.agent_execute_url = qh[s].agentInfo.base_url \o "/execute"
  /\ hresp # <<>> => hresp.kind # "no_agent_data"

\* routing chose a capability of bio while the snapshot holds two agents, bio
\* with two capabilities
C26_Witness ==
  /\ Len(discoveredAgentsData) = 2
  /\ Len(discoveredTools) = 3
  /\ \E s \in QSlots : qh[s].pc = "probe" /\ qh[s].decision.owner_agent_id = "bio"

\* the agents the registry holds now: the store's data keys, or the fallback's
\* entries (the clock stands still in SpecStoreError, none of them expires)
LiveAgents ==
  IF redisClient THEN {a \in AgentIds : RedisExists(redis, dataKey(a))}
  ELSE {a \in AgentIds : ObjHas(inMemoryAgents, a)}

\* C27: a non-empty snapshot of the host is replaced by an empty one only in a
\* step in which the registry holds no agent, and the host answers 503 for
\* want of agents only then, also when the registry's store fails while
\* listing
C27_SnapshotEmptiedOnlyWithoutAgents ==
  [][/\ (Len(discoveredAgentsData) > 0 /\ Len(discoveredAgentsData') = 0) => LiveAgents = {}
     /\ (Len(discoveredTools) > 0 /\ hresp' # <<>> /\ hresp'.kind = "no_agents") => LiveAgents = {}]_vars
====
